---- MODULE Spec2Model ----
(***************************************************************************)
(* Multi-account email synchronisation and dispatch engine.                *)
(*                                                                         *)
(* Sync side: MultiAccountEmailService.syncAccount,                        *)
(* saveMessagesToDatabase and saveMessageWithRetry                         *)
(* (src/server/services/multiAccountEmailService.ts).                      *)
(* Send side: the POST /emails/send route (src/unnamed/part_006) with      *)
(* sendFromAccount, the SMTP/OAuth transports and the transporter cache.   *)
(* Every `await` of the source is a step boundary: between two steps of    *)
(* one call any other call may run.                                        *)
(***************************************************************************)
EXTENDS Integers, Sequences, FiniteSets, TLC

VARIABLES
    emailThreads,   \* table email_threads: sequence of rows, row id = index
    emailMessages,  \* table email_messages: sequence of rows, row id = index
    account,        \* the emailAccounts row being synced / sent from
    sync,           \* sync[p]: one syncAccount invocation
    wk,             \* wk[p][m]: one saveMessageWithRetry invocation
    extThread,      \* extThread[m]: the externalThreadId the provider reports for m
    flaky,          \* the messages whose persistence the environment may fail
    faults,         \* persistence errors the environment may still raise
    req,            \* req[r]: one POST /emails/send request
    transporterCache, \* MultiAccountEmailService.transporterCache: account id -> transporter
    transporters,   \* nodemailer.createTransport calls so far (the transporter ids)
    verifyCalls,    \* transporter.verify() calls so far
    sentLog,        \* EmailRateLimiter: the times of the sends recorded for the user and provider
    now,            \* the clock, in ticks
    check,          \* the result of the latest canSendEmail call of a caller outside the route
    delivered,      \* requests whose message a provider accepted
    breaker         \* the AuthCircuitBreaker instance of the client and its pending timers

sendVars == <<req, transporterCache, transporters, verifyCalls, sentLog, now, check, delivered>>

vars == <<emailThreads, emailMessages, account, sync, wk, extThread, flaky, breaker, faults, sendVars>>

----------------------------------------------------------------------------
(* Bounds of the model *)

NumPasses == 2      \* syncAccount invocations
NumNewer == 2       \* messages of the mailbox beyond the first batch
MaxFaults == 3      \* persistence errors in one behaviour of sequential passes
MaxConcurrentFaults == 1  \* persistence errors in one behaviour of overlapping calls
HourlyLimit == 2    \* EmailRateLimiter's configured sends per hour
DailyLimit == 3     \* EmailRateLimiter's configured sends per day
HourTicks == 2      \* clock ticks in an hour
DayTicks == 4       \* clock ticks in a day
MaxTime == 5        \* the clock stops here
MaxLog == 4         \* recorded sends kept at a time

(* Program constants *)

BATCH_SIZE == 10
DefaultRetries == 2
SpamBlockScore == 7
MinTextLength == 10

Passes == 1..NumPasses
Requests == {1, 2}                  \* POST /emails/send requests
Msgs == {1, 2}                      \* the provider's messages

NoThread == 0                       \* message.externalThreadId absent
NoExternalId == "null"              \* column never written by an insert

\* message.externalThreadId: optional, "" when the provider gives none
ExternalThreadIdOf(m) == extThread[m]

----------------------------------------------------------------------------
(* Pure helpers *)

Min(a, b) == IF a < b THEN a ELSE b

RECURSIVE Pow2(_)
Pow2(n) == IF n = 0 THEN 1 ELSE 2 * Pow2(n - 1)

\* a delay that does not grow
RetryDelay_Fixed(attempt) == 1000

\* Math.min(1000 * Math.pow(2, attempt), 5000)
RetryDelay(attempt) == Min(1000 * Pow2(attempt), 5000)

\* ascending sequence of the elements of a finite set of integers
RECURSIVE SortedSeq(_)
SortedSeq(S) ==
    IF S = {} THEN <<>>
    ELSE LET x == CHOOSE y \in S : \A z \in S : y <= z
         IN <<x>> \o SortedSeq(S \ {x})

Range(s) == {s[i] : i \in 1..Len(s)}

\* messages.slice(i, i + BATCH_SIZE), i a 0-based offset
Batch(messages, i) ==
    {messages[k] : k \in (i + 1)..Min(i + BATCH_SIZE, Len(messages))}


----------------------------------------------------------------------------
(* Persistence layer: the queries and inserts the service issues *)

\* a lookup that matches no row
ExistingMessage_NoMatch(id) == {}

\* db.query.emailMessages.findFirst({ where: eq(externalMessageId, id) })
\* the row ids of the messages stored under the provider id
ExistingMessage(id) ==
    {k \in 1..Len(emailMessages) : emailMessages[k].externalMessageId = id}

\* db.query.emailThreads.findFirst({ where: eq(externalThreadId, tid) })
\* the row ids of the threads linked to the provider thread id
ExistingThread(tid) ==
    {k \in 1..Len(emailThreads) : emailThreads[k].externalThreadId = tid}

----------------------------------------------------------------------------
(* Message bodies: strings as sequences of characters *)

HtmlHi == <<"<", "p", ">", "h", "i", "<", "/", "p", ">">>
HtmlTenChars == <<"<", "i", ">", "t", "e", "n", " ", "c", "h", "a", "r", "s", "!", "<", "/", "i", ">">>
HtmlPadded == <<"<", "p", ">", " ", "1", "2", "3", "4", "5", "6", "7", "8", " ", "<", "/", "p", ">">>
HtmlScript == <<"<", "s", "c", "r", "i", "p", "t", ">", "x", "(", ")", "<", "/", "s", "c", "r", "i", "p", "t", ">", "h", "e", "l", "l", "o">>
HtmlInbound == <<"<", "b", " ", "o", "n", "c", "l", "i", "c", "k", "=", "\"", "x", "(", ")", "\"", ">", "h", "i", "<", "/", "b", ">", "<", "s", "c", "r", "i", "p", "t", ">", "y", "(", ")", "<", "/", "s", "c", "r", "i", "p", "t", ">">>
SCRIPT_OPEN == <<"<", "s", "c", "r", "i", "p", "t">>
SCRIPT_CLOSE == <<"<", "/", "s", "c", "r", "i", "p", "t", ">">>
TextHi == <<"h", "i">>
TextPlain == <<"p", "l", "a", "i", "n", " ", "t", "e", "x", "t", " ", "b", "o", "d", "y">>
NoBody == <<>>

\* does s start with the characters of p
IsPrefix(p, s) == Len(p) <= Len(s) /\ SubSeq(s, 1, Len(p)) = p

\* what follows the first occurrence of closer in s, nothing when there is none
RECURSIVE DropThrough(_, _)
DropThrough(s, closer) ==
    IF s = <<>> THEN <<>>
    ELSE IF IsPrefix(closer, s) THEN SubSeq(s, Len(closer) + 1, Len(s))
    ELSE DropThrough(Tail(s), closer)

\* html without the elements that open with opener and end with closer
RECURSIVE RemoveElements(_, _, _)
RemoveElements(s, opener, closer) ==
    IF s = <<>> THEN <<>>
    ELSE IF IsPrefix(opener, s)
         THEN RemoveElements(DropThrough(s, closer), opener, closer)
         ELSE <<Head(s)>> \o RemoveElements(Tail(s), opener, closer)

\* the characters \w matches
WordChars ==
    {"a", "b", "c", "d", "e", "f", "g", "h", "i", "j", "k", "l", "m", "n", "o", "p", "q",
     "r", "s", "t", "u", "v", "w", "x", "y", "z", "0", "1", "2", "3", "4", "5", "6", "7",
     "8", "9", "_"}

\* the first position from i on where s holds the characters of p, 0 when
\* there is none
FirstAt(s, i, p) ==
    LET At == {j \in i..(Len(s) - Len(p) + 1) : SubSeq(s, j, j + Len(p) - 1) = p}
    IN IF At = {} THEN 0 ELSE CHOOSE j \in At : \A k \in At : j <= k

\* the first position from i on that is past s or holds no word character
WordEnd(s, i) ==
    CHOOSE j \in i..(Len(s) + 1) :
        /\ j = Len(s) + 1 \/ s[j] \notin WordChars
        /\ \A k \in i..(j - 1) : s[k] \in WordChars

\* where a match of /<script\b[^>]*>([\s\S]*?)<\/script>/ that starts at the
\* head of s ends, 0 when there is no such match
ScriptMatchEnd(s) ==
    IF /\ IsPrefix(SCRIPT_OPEN, s)
       /\ Len(s) > Len(SCRIPT_OPEN)
       /\ s[Len(SCRIPT_OPEN) + 1] \notin WordChars
    THEN LET gt == FirstAt(s, Len(SCRIPT_OPEN) + 1, <<">">>)
             close == IF gt = 0 THEN 0 ELSE FirstAt(s, gt + 1, SCRIPT_CLOSE)
         IN IF close = 0 THEN 0 ELSE close + Len(SCRIPT_CLOSE) - 1
    ELSE 0

\* where a match of /on\w+="[^"]*"/ that starts at the head of s ends, 0 when
\* there is no such match
HandlerMatchEnd(s) ==
    IF IsPrefix(<<"o", "n">>, s)
    THEN LET e == WordEnd(s, 3)
         IN IF e > 3 /\ e + 1 <= Len(s) /\ s[e] = "=" /\ s[e + 1] = "\""
            THEN FirstAt(s, e + 2, <<"\"">>)
            ELSE 0
    ELSE 0

\* line 16: html.replace(/<script\b[^>]*>([\s\S]*?)<\/script>/gim, "")
RECURSIVE RemoveScripts(_)
RemoveScripts(s) ==
    IF s = <<>> THEN <<>>
    ELSE IF ScriptMatchEnd(s) > 0
         THEN RemoveScripts(SubSeq(s, ScriptMatchEnd(s) + 1, Len(s)))
         ELSE <<Head(s)>> \o RemoveScripts(Tail(s))

\* line 17: .replace(/on\w+="[^"]*"/gim, "")
RECURSIVE RemoveHandlers(_)
RemoveHandlers(s) ==
    IF s = <<>> THEN <<>>
    ELSE IF HandlerMatchEnd(s) > 0
         THEN RemoveHandlers(SubSeq(s, HandlerMatchEnd(s) + 1, Len(s)))
         ELSE <<Head(s)>> \o RemoveHandlers(Tail(s))

\* sanitizeHtml of the sync service, lines 13-19
SanitizeHtml(html) == RemoveHandlers(RemoveScripts(html))

\* EmailDeliverabilityService.sanitizeHtmlForEmail (its source is not among
\* the files): the html without its script and style elements and without
\* its event handler attributes
SanitizeHtmlForEmail(html) ==
    RemoveHandlers(RemoveElements(RemoveElements(html, SCRIPT_OPEN, SCRIPT_CLOSE), 
                   <<"<", "s", "t", "y", "l", "e">>, <<"<", "/", "s", "t", "y", "l", "e", ">">>))

\* the html body the provider delivers for message m
HtmlBodyOf(m) == IF m = 1 THEN HtmlInbound ELSE HtmlHi

\* an inbound body stored as the provider delivered it
InboundHtmlBody_Raw(m) == HtmlBodyOf(m)

\* line 402: const sanitizedHtmlBody = sanitizeHtml(message.htmlBody)
InboundHtmlBody(m) == SanitizeHtml(HtmlBodyOf(m))

\* s.replace(/<[^>]*>/g, ''): every "<" up to the next ">" is removed
RECURSIVE StripTags(_)
StripTags(s) ==
    IF s = <<>> THEN <<>>
    ELSE IF Head(s) = "<" /\ \E j \in 2..Len(s) : s[j] = ">"
         THEN LET j == CHOOSE k \in 2..Len(s) :
                          s[k] = ">" /\ \A i \in 2..(k - 1) : s[i] # ">"
              IN StripTags(SubSeq(s, j + 1, Len(s)))
         ELSE <<Head(s)>> \o StripTags(Tail(s))

\* String.prototype.trim over the blank
RECURSIVE Trim(_)
Trim(s) ==
    IF s = <<>> THEN <<>>
    ELSE IF Head(s) = " " THEN Trim(Tail(s))
    ELSE IF s[Len(s)] = " " THEN Trim(SubSeq(s, 1, Len(s) - 1))
    ELSE s

\* a text body taken from the html as it stands, tags included
FinalTextBody_Unstripped(textBody, sanitizedHtmlBody) ==
    IF textBody # NoBody THEN textBody ELSE sanitizedHtmlBody

\* line 2032: textBody || sanitizedHtmlBody.replace(/<[^>]*>/g, '').trim()
FinalTextBody(textBody, sanitizedHtmlBody) ==
    IF textBody # NoBody THEN textBody ELSE Trim(StripTags(sanitizedHtmlBody))

\* line 2034: !finalTextBody || finalTextBody.length < 10
InsufficientContent(finalTextBody) == Len(finalTextBody) < MinTextLength

----------------------------------------------------------------------------
(* Rows *)

\* The values of db.insert(emailThreads) in saveMessageWithRetry: subject,
\* participantEmails, lastMessageAt, messageCount: 0, createdBy.  No
\* externalThreadId is written, so the column keeps its null.
NewInboundThread(m) ==
    [externalThreadId |-> NoExternalId, messageCount |-> 0, subject |-> m]

\* The values of db.insert(emailMessages) in saveMessageWithRetry
NewInboundMessage(m, threadId) ==
    [threadId |-> threadId, externalMessageId |-> m, messageType |-> "received",
     htmlBody |-> InboundHtmlBody(m)]

\* The messages that reference thread t
MessagesOf(t) == {k \in 1..Len(emailMessages) : emailMessages[k].threadId = t}

----------------------------------------------------------------------------
(* saveMessageWithRetry(message, account, userId, retries = 2) *)

IdleWorker == [pc |-> "idle", attempt |-> 0, threadId |-> NoThread, result |-> FALSE,
               delay |-> 0]

SetWk(p, m, w) == wk' = [wk EXCEPT ![p][m] = w]

\* catch (error): retry after the backoff delay, or give up with false;
\* delay is the time handed to setTimeout (lines 460-461)
Catch(w) ==
    IF w.attempt < DefaultRetries
    THEN [w EXCEPT !.pc = "backoff", !.delay = RetryDelay(w.attempt)]
    ELSE [w EXCEPT !.pc = "done", !.result = FALSE]

CanFault == faults > 0

\* a persistence call made for message m may fail
CanFaultOn(m) == CanFault /\ m \in flaky

\* lines 406-412: the existence check
FindExistingMessage(p, m) ==
    /\ wk[p][m].pc = "findMessage"
    /\ \/ /\ SetWk(p, m,
                IF ExistingMessage(m) # {}
                THEN [wk[p][m] EXCEPT !.pc = "done", !.result = FALSE]
                ELSE IF ExternalThreadIdOf(m) # ""
                     THEN [wk[p][m] EXCEPT !.pc = "findThread"]
                     ELSE [wk[p][m] EXCEPT !.pc = "insertThread"])
          /\ UNCHANGED faults
       \/ /\ CanFaultOn(m)
          /\ SetWk(p, m, Catch(wk[p][m]))
          /\ faults' = faults - 1
    /\ UNCHANGED <<emailThreads, emailMessages, account, sync, extThread, flaky, breaker, sendVars>>

\* lines 418-426: look for a thread linked to the provider thread id
FindExistingThread(p, m) ==
    /\ wk[p][m].pc = "findThread"
    /\ \/ /\ LET found == ExistingThread(ExternalThreadIdOf(m))
             IN SetWk(p, m,
                   IF found # {}
                   THEN [wk[p][m] EXCEPT !.pc = "insertMessage",
                                         !.threadId = CHOOSE k \in found : \A j \in found : k <= j]
                   ELSE [wk[p][m] EXCEPT !.pc = "insertThread"])
          /\ UNCHANGED faults
       \/ /\ CanFaultOn(m)
          /\ SetWk(p, m, Catch(wk[p][m]))
          /\ faults' = faults - 1
    /\ UNCHANGED <<emailThreads, emailMessages, account, sync, extThread, flaky, breaker, sendVars>>

\* lines 427-435: create a thread
InsertThread(p, m) ==
    /\ wk[p][m].pc = "insertThread"
    /\ \/ /\ emailThreads' = Append(emailThreads, NewInboundThread(m))
          /\ SetWk(p, m, [wk[p][m] EXCEPT !.pc = "insertMessage",
                                          !.threadId = Len(emailThreads) + 1])
          /\ UNCHANGED faults
       \/ /\ CanFaultOn(m)
          /\ SetWk(p, m, Catch(wk[p][m]))
          /\ faults' = faults - 1
          /\ UNCHANGED emailThreads
    /\ UNCHANGED <<emailMessages, account, sync, extThread, flaky, breaker, sendVars>>

\* lines 439-457: insert the message, return true
InsertMessage(p, m) ==
    /\ wk[p][m].pc = "insertMessage"
    /\ \/ /\ emailMessages' = Append(emailMessages,
                                     NewInboundMessage(m, wk[p][m].threadId))
          /\ SetWk(p, m, [wk[p][m] EXCEPT !.pc = "done", !.result = TRUE])
          /\ UNCHANGED faults
       \/ /\ CanFaultOn(m)
          /\ SetWk(p, m, Catch(wk[p][m]))
          /\ faults' = faults - 1
          /\ UNCHANGED emailMessages
    /\ UNCHANGED <<emailThreads, account, sync, extThread, flaky, breaker, sendVars>>

\* lines 459-462: the delay has elapsed, next iteration of the loop
RetryAfterDelay(p, m) ==
    /\ wk[p][m].pc = "backoff"
    /\ SetWk(p, m, [wk[p][m] EXCEPT !.pc = "findMessage",
                                    !.attempt = wk[p][m].attempt + 1,
                                    !.threadId = NoThread])
    /\ UNCHANGED <<emailThreads, emailMessages, account, sync, extThread, flaky, breaker, faults, sendVars>>

----------------------------------------------------------------------------
(* syncAccount(accountId, userId) and saveMessagesToDatabase *)

IdleSync == [pc |-> "idle", messages |-> <<>>, i |-> 0, syncedCount |-> 0,
             historyId |-> 0, success |-> FALSE, error |-> ""]

\* a catch that reports the pass as done
FailSync_Success(s) == [s EXCEPT !.pc = "done", !.success = TRUE]

\* lines 356-362: catch (error) { return { success: false, error } }
FailSync(s) == [s EXCEPT !.pc = "done", !.success = FALSE]

FailSyncWith(s, message) == [FailSync(s) EXCEPT !.error = message]

\* a loop that hands every fetched message to one Promise.allSettled
CurrentBatch_All(p) == Range(sync[p].messages)

\* the messages whose save is awaited by the current Promise.allSettled
CurrentBatch(p) == Batch(sync[p].messages, sync[p].i)

\* lines 307-314: look the account up
SyncFindAccount(p) ==
    /\ sync[p].pc = "idle"
    /\ \/ /\ \E accountId \in {"a1", "zz"} :
                sync' = [sync EXCEPT ![p] = IF accountId = account.id
                                            THEN [@ EXCEPT !.pc = "fetch"]
                                            ELSE FailSyncWith(@, "Account not found")]
          /\ UNCHANGED faults
       \/ /\ CanFault
          /\ sync' = [sync EXCEPT ![p] = FailSyncWith(@, "Sync failed")]
          /\ faults' = faults - 1
    /\ UNCHANGED <<emailThreads, emailMessages, account, wk, extThread, flaky, breaker, sendVars>>

\* what the provider's fetch returns: the messages and, from gmail, a
\* historyId (0: none)
FetchResult(S, historyId) ==
    [messages |-> S, historyId |-> IF account.provider = "gmail" THEN historyId ELSE 0]

\* lines 319-332: the provider fetch settles; Results is what it may return
SyncFetchOf(p, Results) ==
    /\ sync[p].pc = "fetch"
    /\ \/ /\ \E result \in Results :
                sync' = [sync EXCEPT ![p].messages = SortedSeq(result.messages),
                                     ![p].historyId = result.historyId,
                                     ![p].pc = IF result.messages = {} THEN "update" ELSE "batch"]
          /\ UNCHANGED faults
       \/ /\ CanFault
          /\ sync' = [sync EXCEPT ![p] = FailSyncWith(@, "ProviderUnavailable")]
          /\ faults' = faults - 1
    /\ UNCHANGED <<emailThreads, emailMessages, account, wk, extThread, flaky, breaker, sendVars>>

\* the provider returns any of the messages Msgs
SyncFetch(p) == SyncFetchOf(p, {FetchResult(S, p) : S \in SUBSET Msgs})

\* lines 373-378: batch.map(saveMessageWithRetry) starts every save of the batch
SyncStartBatch(p) ==
    /\ sync[p].pc = "batch"
    /\ wk' = [wk EXCEPT ![p] = [m \in DOMAIN wk[p] |->
                 IF m \in CurrentBatch(p)
                 THEN [IdleWorker EXCEPT !.pc = "findMessage"]
                 ELSE wk[p][m]]]
    /\ sync' = [sync EXCEPT ![p].pc = "await"]
    /\ UNCHANGED <<emailThreads, emailMessages, account, extThread, flaky, breaker, faults, sendVars>>

\* a loop that returns after its first batch
AfterBatch_OneBatch(messages, j) == "update"

\* line 373: for (...; i < messages.length; i += BATCH_SIZE), j the next i
AfterBatch(messages, j) == IF j < Len(messages) THEN "batch" ELSE "update"

\* lines 376-385: all settled; count the fulfilled saves that returned true
SyncFinishBatch(p) ==
    /\ sync[p].pc = "await"
    /\ \A m \in CurrentBatch(p) : wk[p][m].pc = "done"
    /\ LET n == Cardinality({m \in CurrentBatch(p) : wk[p][m].result})
           j == sync[p].i + BATCH_SIZE
       IN sync' = [sync EXCEPT ![p].syncedCount = @ + n,
                               ![p].i = j,
                               ![p].pc = AfterBatch(sync[p].messages, j)]
    /\ UNCHANGED <<emailThreads, emailMessages, account, wk, extThread, flaky, breaker, faults, sendVars>>

\* lines 342-355: store lastSyncAt (and historyId when there is one)
SyncUpdateAccount(p) ==
    /\ sync[p].pc = "update"
    /\ \/ /\ account' = [account EXCEPT
                            !.lastSyncAt = p,
                            !.historyId = IF sync[p].historyId # 0
                                          THEN sync[p].historyId ELSE @]
          /\ sync' = [sync EXCEPT ![p].pc = "done", ![p].success = TRUE]
          /\ UNCHANGED faults
       \/ /\ CanFault
          /\ sync' = [sync EXCEPT ![p] = FailSyncWith(@, "Sync failed")]
          /\ faults' = faults - 1
          /\ UNCHANGED account
    /\ UNCHANGED <<emailThreads, emailMessages, wk, extThread, flaky, breaker, sendVars>>

\* a caller that starts a pass only when the earlier ones have returned
SeqSyncFindAccount(p) ==
    /\ \A q \in Passes : q < p => sync[q].pc = "done"
    /\ SyncFindAccount(p)

WorkerStep(p, m) ==
    \/ FindExistingMessage(p, m)
    \/ FindExistingThread(p, m)
    \/ InsertThread(p, m)
    \/ InsertMessage(p, m)
    \/ RetryAfterDelay(p, m)

SyncStep(p) ==
    \/ SyncFetch(p)
    \/ SyncStartBatch(p)
    \/ SyncFinishBatch(p)
    \/ SyncUpdateAccount(p)

----------------------------------------------------------------------------
(* Errors: what a rejected promise carries *)

\* a value thrown by a provider client: an Error with its message, or
\* something that is no Error
Thrown == {[isError |-> TRUE, message |-> "ETIMEDOUT"],
           [isError |-> FALSE, message |-> ""]}

\* a value thrown by the database driver
DbThrown == {[isError |-> TRUE, message |-> "connection terminated"],
             [isError |-> FALSE, message |-> ""]}

Err(msg) == [isError |-> TRUE, message |-> msg]

\* what transporter.sendMail throws when the connection of the transporter
\* is gone (closed socket, expired login)
ConnectionThrown == {Err("Connection closed")}

\* error instanceof Error ? error.message : fallback
ErrorMessage(e, fallback) == IF e.isError THEN e.message ELSE fallback

NoResult == [state |-> "none", success |-> FALSE, error |-> ""]

Returned(success, error) == [state |-> "returned", success |-> success, error |-> error]

\* an error that escapes the function
Rethrown(e, fallback) == [state |-> "threw", success |-> FALSE, error |-> ""]

\* sendFromAccount: catch (error) { return { success: false, error: ... } }
SendFromAccountCatch(e, fallback) == Returned(FALSE, ErrorMessage(e, fallback))

\* sendViaSMTP / sendViaGmail / sendViaOutlook: the same catch, own fallback
SendViaCatch(e, fallback) == Returned(FALSE, ErrorMessage(e, fallback))

----------------------------------------------------------------------------
(* EmailRateLimiter (its source is not among the files): per user and
   provider, the times of the recorded sends, checked against a rolling
   hourly and a rolling daily window *)

Max(a, b) == IF a > b THEN a ELSE b

\* the recorded sends that are younger than len at time t
InWindow(log, t, len) == {i \in 1..Len(log) : t - log[i] < len}

\* the time at which the oldest send of the window leaves it
WindowReset(log, t, len) ==
    LET W == InWindow(log, t, len)
    IN log[CHOOSE i \in W : \A j \in W : i <= j] + len

\* a canSendEmail that lets every send through
CanSendAt_Unlimited(log, t) ==
    [allowed |-> TRUE, remaining |-> HourlyLimit, resetAt |-> t]

\* canSendEmail at time t over the recorded sends log: a read-only check of
\* both windows, the stricter governs
CanSendAt(log, t) ==
    LET h == Cardinality(InWindow(log, t, HourTicks))
        d == Cardinality(InWindow(log, t, DayTicks))
    IN [allowed |-> h < HourlyLimit /\ d < DailyLimit,
        remaining |-> Max(0, Min(HourlyLimit - h, DailyLimit - d)),
        resetAt |-> IF h >= HourlyLimit /\ d >= DailyLimit
                    THEN Max(WindowReset(log, t, HourTicks), WindowReset(log, t, DayTicks))
                    ELSE IF h >= HourlyLimit THEN WindowReset(log, t, HourTicks)
                    ELSE IF d >= DailyLimit THEN WindowReset(log, t, DayTicks)
                    ELSE t]

\* EmailRateLimiter.canSendEmail(user, provider)
CanSendEmail == CanSendAt(sentLog, now)

\* the sends older than the longest window are dropped on access
Pruned(log, t) == SelectSeq(log, LAMBDA x : t - x < DayTicks)

\* EmailRateLimiter.recordEmailSent(user, provider)
RecordEmailSent == Append(Pruned(sentLog, now), now)

\* a canSendEmail call of some caller, with the time and the recorded sends it saw
RlCanSend ==
    /\ check' = <<[at |-> now, log |-> sentLog, result |-> CanSendEmail]>>
                 \o SubSeq(check, 1, Min(1, Len(check)))
    /\ check' # check
    /\ UNCHANGED <<emailThreads, emailMessages, account, sync, wk, extThread, flaky, breaker, faults,
                   req, transporterCache, transporters, verifyCalls, sentLog, now, delivered>>

\* a recordEmailSent call
RlRecordSent ==
    /\ Len(sentLog) < MaxLog
    /\ sentLog' = RecordEmailSent
    /\ UNCHANGED <<emailThreads, emailMessages, account, sync, wk, extThread, flaky, breaker, faults,
                   req, transporterCache, transporters, verifyCalls, now, check, delivered>>

\* the clock advances
Tick ==
    /\ now < MaxTime
    /\ now' = now + 1
    /\ UNCHANGED <<emailThreads, emailMessages, account, sync, wk, extThread, flaky, breaker, faults,
                   req, transporterCache, transporters, verifyCalls, sentLog, check, delivered>>

----------------------------------------------------------------------------
(* The checks of a send request *)

\* what EmailDeliverabilityService.checkSpamScore answers (its source is not
\* among the files): a score of 0 to 10 and the issues found
SpamPass == [score |-> 4, issues |-> <<>>]
SpamWarn == [score |-> 5, issues |-> <<"few words">>]
SpamBlock == [score |-> 7, issues |-> <<"spam words", "all caps subject">>]

\* the bodies of a request and the spam check they get
SendInputs ==
    {[htmlBody |-> HtmlHi, textBody |-> NoBody, spamCheck |-> SpamPass],
     [htmlBody |-> HtmlTenChars, textBody |-> NoBody, spamCheck |-> SpamPass],
     [htmlBody |-> HtmlPadded, textBody |-> NoBody, spamCheck |-> SpamPass],
     [htmlBody |-> HtmlScript, textBody |-> NoBody, spamCheck |-> SpamWarn],
     [htmlBody |-> HtmlScript, textBody |-> TextPlain, spamCheck |-> SpamWarn],
     [htmlBody |-> HtmlTenChars, textBody |-> TextHi, spamCheck |-> SpamPass],
     [htmlBody |-> HtmlTenChars, textBody |-> NoBody, spamCheck |-> SpamBlock],
     [htmlBody |-> HtmlHi, textBody |-> NoBody, spamCheck |-> SpamBlock]}

NoInput == [htmlBody |-> NoBody, textBody |-> NoBody, spamCheck |-> SpamPass]

----------------------------------------------------------------------------
(* POST /emails/send *)

\* a response body without a resetAt
NoResetAt == -1

IdleRequest == [pc |-> "idle", threadId |-> NoThread, messageId |-> 0,
                transporter |-> 0, result |-> NoResult, recorded |-> 0,
                response |-> 0, resetAt |-> NoResetAt, input |-> NoInput,
                message |-> "", issues |-> <<>>]

SetReq(r, q) == req' = [req EXCEPT ![r] = q]

Respond(q, status) == [q EXCEPT !.pc = "done", !.response = status]

\* the row of db.insert(emailThreads) when the request names no thread
NewOutboundThread == [externalThreadId |-> NoExternalId, messageCount |-> 0, subject |-> 0]

\* the row of db.insert(emailMessages): messageType 'sent', no externalMessageId
NewOutboundMessage(threadId, sanitizedHtmlBody) ==
    [threadId |-> threadId, externalMessageId |-> 0, messageType |-> "sent",
     htmlBody |-> sanitizedHtmlBody]

\* the step that follows the thread resolution: the message insert
AfterEnsureThread_Dispatch == "sfFindAccount"

AfterEnsureThread == "insertMessage"

\* db.update(emailThreads).set({ messageCount: messageCount + 1 }).where(id = t)
IncrementMessageCount(t) ==
    [k \in 1..Len(emailThreads) |->
        IF k = t THEN [emailThreads[k] EXCEPT !.messageCount = @ + 1]
        ELSE emailThreads[k]]

\* a route that does not look at the rate limit check
RateLimited_Skipped(rateLimitCheck) == FALSE

\* line 1993: if (!rateLimitCheck.allowed)
RateLimited(rateLimitCheck) == ~rateLimitCheck.allowed

\* lines 1994-1999: res.status(429).json({ ..., resetAt: rateLimitCheck.resetAt })
RateLimitExceeded(q, rateLimitCheck) ==
    [Respond(q, 429) EXCEPT !.resetAt = rateLimitCheck.resetAt]

\* a gate that lets the threshold score through
SpamBlocked_Above(spamCheck) == spamCheck.score > SpamBlockScore

\* line 2012: if (spamCheck.score >= 7)
SpamBlocked(spamCheck) == spamCheck.score >= SpamBlockScore

\* lines 2013-2019: res.status(400).json({ ..., issues: spamCheck.issues })
DeliverabilityBlocked(q, spamCheck) ==
    [Respond(q, 400) EXCEPT !.message = "Email blocked: High spam score detected",
                            !.issues = spamCheck.issues]

\* lines 2035-2038
ContentRejected(q) ==
    [Respond(q, 400) EXCEPT
        !.message = "Email must have substantial text content (at least 10 characters)"]

\* lines 1933-1964: the body is read, the recipients are validated
SendValidate(r) ==
    /\ req[r].pc = "idle"
    /\ \E valid \in BOOLEAN, input \in SendInputs :
          SetReq(r, IF valid THEN [req[r] EXCEPT !.pc = "resolveAccount", !.input = input]
                    ELSE Respond(req[r], 400))
    /\ UNCHANGED <<emailThreads, emailMessages, account, sync, wk, extThread, flaky, breaker, faults,
                   transporterCache, transporters, verifyCalls, sentLog, now, check, delivered>>

\* lines 1966-2063 up to the next await: the account is resolved; then the
\* rate limit, the spam score and the text length are checked, and the thread
\* id is taken from the request or a Thread insert is issued
SendResolveAndCheck(r) ==
    /\ req[r].pc = "resolveAccount"
    /\ \/ /\ \E accountId \in {"", "a1", "zz"}, threadId \in {NoThread, 1} :
                LET input == req[r].input
                    sanitizedHtmlBody == SanitizeHtmlForEmail(input.htmlBody)
                    finalTextBody == FinalTextBody(input.textBody, sanitizedHtmlBody)
                IN
                SetReq(r,
                   IF accountId \notin {"", account.id} THEN Respond(req[r], 400)
                   ELSE IF RateLimited(CanSendEmail) THEN RateLimitExceeded(req[r], CanSendEmail)
                   ELSE IF SpamBlocked(input.spamCheck)
                        THEN DeliverabilityBlocked(req[r], input.spamCheck)
                   ELSE IF InsufficientContent(finalTextBody) THEN ContentRejected(req[r])
                   ELSE IF threadId = NoThread THEN [req[r] EXCEPT !.pc = "insertThread"]
                   ELSE [req[r] EXCEPT !.pc = AfterEnsureThread, !.threadId = threadId])
          /\ UNCHANGED faults
       \/ \* the explicit lookup throws (500); getDefaultAccount catches and
          \* returns null (400)
          /\ CanFault
          /\ \E status \in {400, 500} : SetReq(r, Respond(req[r], status))
          /\ faults' = faults - 1
    /\ UNCHANGED <<emailThreads, emailMessages, account, sync, wk, extThread, flaky, breaker,
                   transporterCache, transporters, verifyCalls, sentLog, now, check, delivered>>

\* lines 2053-2063: create the Thread
SendInsertThread(r) ==
    /\ req[r].pc = "insertThread"
    /\ \/ /\ emailThreads' = Append(emailThreads, NewOutboundThread)
          /\ SetReq(r, [req[r] EXCEPT !.pc = AfterEnsureThread,
                                      !.threadId = Len(emailThreads) + 1])
          /\ UNCHANGED faults
       \/ /\ CanFault
          /\ SetReq(r, Respond(req[r], 500))
          /\ faults' = faults - 1
          /\ UNCHANGED emailThreads
    /\ UNCHANGED <<emailMessages, account, sync, wk, extThread, flaky, breaker,
                   transporterCache, transporters, verifyCalls, sentLog, now, check, delivered>>

\* lines 2072-2086: create the message record
SendInsertMessage(r) ==
    /\ req[r].pc = "insertMessage"
    /\ \/ /\ emailMessages' = Append(emailMessages, NewOutboundMessage(req[r].threadId,
                                        SanitizeHtmlForEmail(req[r].input.htmlBody)))
          /\ \E attachments \in BOOLEAN :
                SetReq(r, [req[r] EXCEPT !.messageId = Len(emailMessages) + 1,
                                         !.pc = IF attachments THEN "saveAttachments"
                                                ELSE "sfFindAccount"])
          /\ UNCHANGED faults
       \/ /\ CanFault
          /\ SetReq(r, Respond(req[r], 500))
          /\ faults' = faults - 1
          /\ UNCHANGED emailMessages
    /\ UNCHANGED <<emailThreads, account, sync, wk, extThread, flaky, breaker,
                   transporterCache, transporters, verifyCalls, sentLog, now, check, delivered>>

\* lines 2088-2099: store the attachments of the message (the rows of
\* emailAttachments play no part in what follows)
SendSaveAttachments(r) ==
    /\ req[r].pc = "saveAttachments"
    /\ \/ /\ SetReq(r, [req[r] EXCEPT !.pc = "sfFindAccount"])
          /\ UNCHANGED faults
       \/ /\ CanFault
          /\ SetReq(r, Respond(req[r], 500))
          /\ faults' = faults - 1
    /\ UNCHANGED <<emailThreads, emailMessages, account, sync, wk, extThread, flaky, breaker,
                   transporterCache, transporters, verifyCalls, sentLog, now, check, delivered>>

\* sendResult = await MultiAccountEmailService.sendFromAccount(...)
Settled(q, result) == [q EXCEPT !.result = result, !.pc = "afterSend"]


----------------------------------------------------------------------------
(* MultiAccountEmailService.sendFromAccount and the transports *)

\* getOrCreateTransporter, lines 58-61: the cached transporter, 0 when none
CachedTransporter(accountId) == transporterCache[accountId]

\* lines 122-142 and getOrCreateTransporter up to `await transporter.verify()`
SfFindAccount(r) ==
    /\ req[r].pc = "sfFindAccount"
    /\ \/ /\ UNCHANGED faults
          /\ IF ~account.isActive
             THEN /\ SetReq(r, Settled(req[r],
                        SendFromAccountCatch(Err("Account not found or inactive"),
                                             "Failed to send email")))
                  /\ UNCHANGED <<transporters, verifyCalls>>
             ELSE IF account.provider = "gmail"
             THEN /\ SetReq(r, [req[r] EXCEPT !.pc = "sfGmail"])
                  /\ UNCHANGED <<transporters, verifyCalls>>
             ELSE IF account.provider = "outlook"
             THEN /\ SetReq(r, [req[r] EXCEPT !.pc = "sfOutlook"])
                  /\ UNCHANGED <<transporters, verifyCalls>>
             ELSE IF account.provider \in {"smtp", "imap"}
             THEN IF CachedTransporter(account.id) # 0
                  THEN /\ SetReq(r, [req[r] EXCEPT !.pc = "sfSendMail",
                                        !.transporter = CachedTransporter(account.id)])
                       /\ UNCHANGED <<transporters, verifyCalls>>
                  ELSE /\ transporters' = transporters + 1
                       /\ verifyCalls' = verifyCalls + 1
                       /\ SetReq(r, [req[r] EXCEPT !.pc = "sfVerify",
                                        !.transporter = transporters + 1])
             ELSE /\ SetReq(r, Settled(req[r],
                        SendFromAccountCatch(Err("Unsupported provider"),
                                             "Failed to send email")))
                  /\ UNCHANGED <<transporters, verifyCalls>>
       \/ /\ CanFault
          /\ \E e \in DbThrown :
                SetReq(r, Settled(req[r], SendFromAccountCatch(e, "Failed to send email")))
          /\ faults' = faults - 1
          /\ UNCHANGED <<transporters, verifyCalls>>
    /\ UNCHANGED <<emailThreads, emailMessages, account, sync, wk, extThread, flaky, breaker,
                   transporterCache, sentLog, now, check, delivered>>

\* getOrCreateTransporter, lines 75-83: verify settles
SfVerify(r) ==
    /\ req[r].pc = "sfVerify"
    /\ \/ /\ transporterCache' = [transporterCache EXCEPT ![account.id] = req[r].transporter]
          /\ SetReq(r, [req[r] EXCEPT !.pc = "sfSendMail"])
       \/ /\ SetReq(r, Settled(req[r],
                SendViaCatch(Err("SMTP connection verification failed."), "SMTP send failed")))
          /\ UNCHANGED transporterCache
    /\ UNCHANGED <<emailThreads, emailMessages, account, sync, wk, extThread, flaky, breaker, faults,
                   transporters, verifyCalls, sentLog, now, check, delivered>>

\* sendViaSMTP, lines 215-240: transporter.sendMail settles
SfSendMail(r) ==
    /\ req[r].pc = "sfSendMail"
    /\ \/ /\ delivered' = delivered \cup {r}
          /\ SetReq(r, Settled(req[r], Returned(TRUE, "")))
       \/ /\ \E e \in Thrown \cup ConnectionThrown :
                SetReq(r, Settled(req[r], SendViaCatch(e, "SMTP send failed")))
          /\ UNCHANGED delivered
    /\ UNCHANGED <<emailThreads, emailMessages, account, sync, wk, extThread, flaky, breaker, faults,
                   transporterCache, transporters, verifyCalls, sentLog, now, check>>

\* the result an OAuth provider service returns for a send (the services'
\* source is not among the files): accepted, or refused with a reason
ProviderOutcomes == {Returned(TRUE, ""), Returned(FALSE, "provider rejected the message")}

\* sendViaGmail, lines 157-179
SfGmail(r) ==
    /\ req[r].pc = "sfGmail"
    /\ \/ \E out \in ProviderOutcomes :
             /\ SetReq(r, Settled(req[r], out))
             /\ delivered' = IF out.success THEN delivered \cup {r} ELSE delivered
       \/ /\ \E e \in Thrown : SetReq(r, Settled(req[r], SendViaCatch(e, "Gmail send failed")))
          /\ UNCHANGED delivered
    /\ UNCHANGED <<emailThreads, emailMessages, account, sync, wk, extThread, flaky, breaker, faults,
                   transporterCache, transporters, verifyCalls, sentLog, now, check>>

\* sendViaOutlook, lines 187-203
SfOutlook(r) ==
    /\ req[r].pc = "sfOutlook"
    /\ \/ \E out \in ProviderOutcomes :
             /\ SetReq(r, Settled(req[r], out))
             /\ delivered' = IF out.success THEN delivered \cup {r} ELSE delivered
       \/ /\ \E e \in Thrown : SetReq(r, Settled(req[r], SendViaCatch(e, "Outlook send failed")))
          /\ UNCHANGED delivered
    /\ UNCHANGED <<emailThreads, emailMessages, account, sync, wk, extThread, flaky, breaker, faults,
                   transporterCache, transporters, verifyCalls, sentLog, now, check>>

\* whether the route records the send: if (sendResult.success)
RecordsUsage_Always(result) == TRUE

RecordsUsage(result) == result.success

\* lines 2119-2129: record the send for rate limiting when it succeeded; an
\* exception out of sendFromAccount would reach the route's catch (500)
SendRecordUsage(r) ==
    /\ req[r].pc = "afterSend"
    /\ IF req[r].result.state = "threw"
       THEN /\ SetReq(r, Respond(req[r], 500))
            /\ UNCHANGED sentLog
       ELSE IF RecordsUsage(req[r].result)
       THEN /\ sentLog' = RecordEmailSent
            /\ SetReq(r, [req[r] EXCEPT !.pc = "updateThread", !.recorded = @ + 1])
       ELSE /\ SetReq(r, [req[r] EXCEPT !.pc = "updateThread"])
            /\ UNCHANGED sentLog
    /\ UNCHANGED <<emailThreads, emailMessages, account, sync, wk, extThread, flaky, breaker, faults,
                   transporterCache, transporters, verifyCalls, now, check, delivered>>

\* lines 2131-2144: bump the Thread's messageCount, answer 201
SendUpdateThread(r) ==
    /\ req[r].pc = "updateThread"
    /\ \/ /\ emailThreads' = IncrementMessageCount(req[r].threadId)
          /\ SetReq(r, Respond(req[r], 201))
          /\ UNCHANGED faults
       \/ /\ CanFault
          /\ SetReq(r, Respond(req[r], 500))
          /\ faults' = faults - 1
          /\ UNCHANGED emailThreads
    /\ UNCHANGED <<emailMessages, account, sync, wk, extThread, flaky, breaker,
                   transporterCache, transporters, verifyCalls, sentLog, now, check, delivered>>

SendStep(r) ==
    \/ SendValidate(r)
    \/ SendResolveAndCheck(r)
    \/ SendInsertThread(r)
    \/ SendInsertMessage(r)
    \/ SendSaveAttachments(r)
    \/ SfFindAccount(r)
    \/ SfVerify(r)
    \/ SfSendMail(r)
    \/ SfGmail(r)
    \/ SfOutlook(r)
    \/ SendRecordUsage(r)
    \/ SendUpdateThread(r)

----------------------------------------------------------------------------
(* The auth circuit breaker of the client *)

maxFailures == 20
resetTimeout == 3000

\* the milliseconds of one tick of the clock
MsPerTick == 1000

\* the failures recorded beyond maxFailures before a reset
MaxExtraFailures == 2

\* Date.now()
DateNow == now * MsPerTick

\* lines 3-5: the fields of a new AuthCircuitBreaker; timers holds the due
\* times of the pending setTimeout callbacks
ClosedBreaker ==
    [failureCount |-> 0, lastFailureTime |-> 0, isOpen |-> FALSE, timers |-> {}]

\* reset(), lines 40-44
Reset(b) == [b EXCEPT !.failureCount = 0, !.isOpen = FALSE, !.lastFailureTime = 0]

BreakerFrame ==
    UNCHANGED <<emailThreads, emailMessages, account, sync, wk, extThread, flaky, faults,
                sendVars>>

\* shouldAllowRequest(), lines 9-18; it returns !isOpen
ShouldAllowRequest ==
    /\ breaker.isOpen
    /\ DateNow - breaker.lastFailureTime > resetTimeout
    /\ breaker' = Reset(breaker)
    /\ BreakerFrame

\* recordFailure(), lines 20-34
RecordFailure ==
    /\ breaker.failureCount < maxFailures + MaxExtraFailures
    /\ LET counted == [breaker EXCEPT !.failureCount = @ + 1,
                                      !.lastFailureTime = DateNow]
       IN breaker' = IF counted.failureCount >= maxFailures
                     THEN [counted EXCEPT !.isOpen = TRUE,
                                          !.timers = @ \cup {DateNow + resetTimeout}]
                     ELSE counted
    /\ BreakerFrame

\* recordSuccess(), lines 36-38, or a call of reset() from outside the class
RecordSuccess ==
    /\ breaker' = Reset(breaker)
    /\ breaker' # breaker
    /\ BreakerFrame

\* the callback of a setTimeout of recordFailure runs, at its due time or
\* later: lines 29-32
TimerFires ==
    /\ \E due \in breaker.timers :
          /\ DateNow >= due
          /\ breaker' = [Reset(breaker) EXCEPT !.timers = @ \ {due}]
    /\ BreakerFrame

----------------------------------------------------------------------------
(* Initial states and specifications *)

\* no send request in progress
NoSend ==
    /\ req = [r \in Requests |-> IdleRequest]
    /\ transporterCache = [a \in {"a1"} |-> 0]
    /\ transporters = 0
    /\ verifyCalls = 0
    /\ delivered = {}

\* no sync pass in progress
NoSync ==
    /\ sync = [p \in Passes |-> IdleSync]
    /\ wk = [p \in Passes |-> [m \in Msgs |-> IdleWorker]]
    /\ extThread \in {[m \in Msgs |-> "T1"], [m \in Msgs |-> ""]}
    /\ flaky = Msgs
    /\ breaker = ClosedBreaker

SendInit ==
    /\ emailThreads = <<>>
    /\ emailMessages = <<>>
    /\ account \in [id : {"a1"}, provider : {"gmail", "outlook", "smtp", "imap", "pop3"},
                    isActive : BOOLEAN, historyId : {0}, lastSyncAt : {0}]
    /\ NoSend
    /\ sentLog \in {[i \in 1..n |-> 0] : n \in 0..HourlyLimit}
    /\ now = 0
    /\ check = <<>>
    /\ sync = [p \in Passes |-> IdleSync]
    /\ wk = [p \in Passes |-> [m \in Msgs |-> IdleWorker]]
    /\ extThread = [m \in Msgs |-> ""]
    /\ flaky = Msgs
    /\ breaker = ClosedBreaker
    /\ faults = MaxConcurrentFaults

\* send requests that may overlap
SendNext == \E r \in Requests : SendStep(r)

SendSpec == SendInit /\ [][SendNext]_vars

SyncState ==
    /\ emailThreads = <<>>
    /\ emailMessages = <<>>
    /\ account \in [id : {"a1"}, provider : {"gmail", "outlook"},
                    isActive : {TRUE}, historyId : {0}, lastSyncAt : {0}]
    /\ NoSync
    /\ NoSend
    /\ sentLog = <<>>
    /\ now = 0
    /\ check = <<>>

SyncInit == SyncState /\ faults = MaxConcurrentFaults

SeqSyncInit == SyncState /\ faults = MaxFaults

\* syncAccount invocations that may overlap
SyncNext ==
    \/ \E p \in Passes : SyncFindAccount(p)
    \/ \E p \in Passes : SyncStep(p)
    \/ \E p \in Passes, m \in Msgs : WorkerStep(p, m)

SyncSpec == SyncInit /\ [][SyncNext]_vars

\* syncAccount invocations one after the other
SeqSyncNext ==
    \/ \E p \in Passes : SeqSyncFindAccount(p)
    \/ \E p \in Passes : SyncStep(p)
    \/ \E p \in Passes, m \in Msgs : WorkerStep(p, m)

SeqSyncSpec == SeqSyncInit /\ [][SeqSyncNext]_vars


----------------------------------------------------------------------------
(* One sync pass and one send request of the same user, overlapping *)

MailPasses == {1}
MailRequests == {1}

MailInit ==
    /\ emailThreads = <<>>
    /\ emailMessages = <<>>
    /\ account \in [id : {"a1"}, provider : {"gmail", "outlook", "smtp", "imap"},
                    isActive : {TRUE}, historyId : {0}, lastSyncAt : {0}]
    /\ NoSync
    /\ NoSend
    /\ sentLog = <<>>
    /\ now = 0
    /\ check = <<>>
    /\ faults = MaxConcurrentFaults

\* syncAccount hands an smtp/imap account to ImapService.syncAccountEmails
\* (lines 333-337), which is not part of this model: passes run for the OAuth
\* accounts only
SyncOAuthAccount(p) ==
    /\ account.provider \in {"gmail", "outlook"}
    /\ SyncFindAccount(p)

MailNext ==
    \/ \E p \in MailPasses : SyncOAuthAccount(p)
    \/ \E p \in MailPasses : SyncStep(p)
    \/ \E p \in MailPasses, m \in Msgs : WorkerStep(p, m)
    \/ \E r \in MailRequests : SendStep(r)

MailSpec == MailInit /\ [][MailNext]_vars

----------------------------------------------------------------------------
(* One sync pass over a mailbox of more than one batch, most of it stored by
   an earlier sync *)

Mailbox == 1..(BATCH_SIZE + NumNewer)

\* the messages an earlier sync has stored: all but the last of the first batch
Stored == 1..(BATCH_SIZE - 1)

\* the messages whose persistence may fail: the new one of the first batch,
\* one of the batch after it, a stored one together with the new one
FlakySets == {{BATCH_SIZE}, {BATCH_SIZE + 1}, {1, BATCH_SIZE}}

BatchInit ==
    /\ emailThreads = [m \in Stored |-> NewInboundThread(m)]
    /\ emailMessages = [m \in Stored |-> NewInboundMessage(m, m)]
    /\ account \in [id : {"a1"}, provider : {"gmail", "outlook"},
                    isActive : {TRUE}, historyId : {0}, lastSyncAt : {0}]
    /\ sync = [p \in Passes |-> IdleSync]
    /\ wk = [p \in Passes |-> [m \in Mailbox |-> IdleWorker]]
    /\ extThread \in {[m \in Mailbox |-> "T1"], [m \in Mailbox |-> ""]}
    /\ flaky \in FlakySets
    /\ breaker = ClosedBreaker
    /\ NoSend
    /\ sentLog = <<>>
    /\ now = 0
    /\ check = <<>>
    /\ faults = MaxFaults

\* the provider returns the whole mailbox
BatchFetch(p) == SyncFetchOf(p, {FetchResult(Mailbox, p)})

BatchNext ==
    \/ SyncFindAccount(1)
    \/ BatchFetch(1)
    \/ SyncStartBatch(1)
    \/ SyncFinishBatch(1)
    \/ SyncUpdateAccount(1)
    \/ \E m \in Mailbox : WorkerStep(1, m)

BatchSpec == BatchInit /\ [][BatchNext]_vars

----------------------------------------------------------------------------
(* Sync passes one after the other against a provider that fetches since the
   stored checkpoint (the Gmail and Outlook services' source is not among the
   files) *)

\* the provider observed message m at history m; its history stands at
LatestHistory == CHOOSE h \in Msgs : \A m \in Msgs : m <= h

\* fetchGmailMessages(account, ...): the messages observed after the
\* account's historyId, and the history they reach;
\* fetchOutlookMessages(account, 50): the latest messages, no checkpoint
ProviderFetch ==
    IF account.provider = "gmail"
    THEN FetchResult({m \in Msgs : m > account.historyId}, LatestHistory)
    ELSE FetchResult(Msgs, 0)

CheckpointFetch(p) == SyncFetchOf(p, {ProviderFetch})

CheckpointNext ==
    \/ \E p \in Passes : SeqSyncFindAccount(p)
    \/ \E p \in Passes : CheckpointFetch(p)
    \/ \E p \in Passes : SyncStartBatch(p)
    \/ \E p \in Passes : SyncFinishBatch(p)
    \/ \E p \in Passes : SyncUpdateAccount(p)
    \/ \E p \in Passes, m \in Msgs : WorkerStep(p, m)

CheckpointSpec == SeqSyncInit /\ [][CheckpointNext]_vars

----------------------------------------------------------------------------
(* The rate limiter alone, under a clock: callers check and record at any time *)

RateInit ==
    /\ emailThreads = <<>>
    /\ emailMessages = <<>>
    /\ account = [id |-> "a1", provider |-> "smtp", isActive |-> TRUE,
                  historyId |-> 0, lastSyncAt |-> 0]
    /\ NoSync
    /\ NoSend
    /\ sentLog = <<>>
    /\ now = 0
    /\ check = <<>>
    /\ faults = 0

RateNext ==
    \/ RlCanSend
    \/ RlRecordSent
    \/ Tick

RateSpec == RateInit /\ [][RateNext]_vars

----------------------------------------------------------------------------
(* Properties of the sync side *)

\* the threads created for messages of the provider conversation tid
ThreadsFor(tid) ==
    {k \in 1..Len(emailThreads) :
        /\ emailThreads[k].subject \in Msgs
        /\ ExternalThreadIdOf(emailThreads[k].subject) = tid}

\* pass q runs saveMessageWithRetry for m after pass p has returned with m
\* in its fetch result
Resynced(p, q, m) ==
    /\ p < q
    /\ sync[p].pc = "done"
    /\ m \in Range(sync[p].messages)
    /\ m \in Range(sync[q].messages)

C2_UniqueExternalMessageId ==
    \A m \in Msgs : Cardinality(ExistingMessage(m)) <= 1

\* C3: at most one Thread is created for an externalThreadId, and no Thread
\* counts more messages than reference it.
C3_OneThreadPerExternalThread ==
    /\ Cardinality(ThreadsFor("T1")) <= 1
    /\ \A t \in 1..Len(emailThreads) :
          emailThreads[t].messageCount <= Cardinality(MessagesOf(t))

\* C4: message 1 (externalThreadId T1) is synced by pass 1, then message 2
\* (same externalThreadId) by pass 2, without any persistence error: both are
\* attached to one Thread, no second Thread exists, its messageCount is 2.
C4_ThreadResolution ==
    ( /\ sync[1].pc = "done" /\ sync[1].messages = <<1>> /\ wk[1][1].result
      /\ sync[2].pc = "done" /\ sync[2].messages = <<2>> /\ wk[2][2].result
      /\ extThread[1] = "T1" /\ extThread[2] = "T1"
      /\ faults = MaxFaults )
    => /\ Len(emailThreads) = 1
       /\ \A k \in 1..Len(emailMessages) : emailMessages[k].threadId = 1
       /\ emailThreads[1].messageCount = 2


----------------------------------------------------------------------------
(* Properties of the threads' message counts *)

\* no syncAccount call and no send request is in progress
Quiescent ==
    /\ \A p \in Passes : sync[p].pc \in {"idle", "done"}
    /\ \A r \in Requests : req[r].pc \in {"idle", "done"}

\* C5: whenever no sync pass and no send request is in progress, each Thread's
\* messageCount equals the number of persisted Messages whose threadId is that
\* Thread (stated for the runs in which no persistence call fails).
C5_MessageCountMatches ==
    (Quiescent /\ faults = MaxConcurrentFaults)
    => \A t \in 1..Len(emailThreads) :
          emailThreads[t].messageCount = Cardinality(MessagesOf(t))

----------------------------------------------------------------------------
(* Properties of the send side *)

\* the request's transport is in progress or over
Dispatched(r) ==
    \/ req[r].pc \in {"sfFindAccount", "sfVerify", "sfSendMail", "sfGmail",
                      "sfOutlook", "afterSend", "updateThread"}
    \/ req[r].result.state # "none"
    \/ r \in delivered

\* the request's Message row is stored, with messageType 'sent'
HasSentRow(r) ==
    /\ req[r].messageId \in 1..Len(emailMessages)
    /\ emailMessages[req[r].messageId]
         = NewOutboundMessage(req[r].threadId, SanitizeHtmlForEmail(req[r].input.htmlBody))

VerifyFailed(r) == req[r].result.error = "SMTP connection verification failed."

\* C6: when no verification fails, the getOrCreateTransporter calls for one
\* account construct one transporter and call verify once, however they overlap.
C6_SingleFlight ==
    (\A r \in Requests : ~VerifyFailed(r))
    => (transporters <= 1 /\ verifyCalls <= 1)

\* C7: sendFromAccount, and so every provider transport call of a request,
\* runs only while the request's Message row of type 'sent' is stored.
C7_PersistBeforeDispatch ==
    \A r \in Requests : Dispatched(r) => HasSentRow(r)

\* a transport call is in flight for a request whose row is stored
C7_Witness ==
    \E r \in Requests : req[r].pc = "sfSendMail" /\ HasSentRow(r)

\* what sendFromAccount reports when a provider call (verify, sendMail, the
\* OAuth services' send) failed
TransportErrors ==
    {"ETIMEDOUT", "SMTP send failed", "Gmail send failed", "Outlook send failed",
     "SMTP connection verification failed.", "provider rejected the message",
     "Connection closed"}

\* the provider transport of the request failed and the request was answered
TransportFailed(r) ==
    /\ req[r].pc = "done"
    /\ req[r].response = 201
    /\ req[r].result.state = "returned"
    /\ ~req[r].result.success
    /\ req[r].result.error \in TransportErrors

\* C8: after a transport failure the request's Message row is still stored
\* and is marked failed-to-deliver: it does not read 'sent', the messageType
\* of a Message whose transport succeeded.
C8_FailedSendIsMarked ==
    \A r \in Requests :
       TransportFailed(r)
       => /\ req[r].messageId \in 1..Len(emailMessages)
          /\ emailMessages[req[r].messageId].messageType # "sent"

C10_QuotaOnlyForConfirmedSends ==
    \A r \in Requests :
       req[r].recorded =
          IF /\ req[r].pc \in {"updateThread", "done"}
             /\ req[r].result.state = "returned"
             /\ req[r].result.success
          THEN 1 ELSE 0

\* one request was sent and recorded, another failed in transport and was not
C10_Witness ==
    \E r, q \in Requests :
       /\ req[r].pc = "done" /\ req[r].recorded = 1 /\ r \in delivered
       /\ TransportFailed(q) /\ req[q].recorded = 0

----------------------------------------------------------------------------
(* Properties of the rate limiter *)

\* the call saw no more recorded sends in a window than the window's limit
NoOvershoot(c) ==
    /\ Cardinality(InWindow(c.log, c.at, HourTicks)) <= HourlyLimit
    /\ Cardinality(InWindow(c.log, c.at, DayTicks)) <= DailyLimit

\* C11: a canSendEmail call never changes the recorded sends; with
\* HourlyLimit sends recorded within the last hour it answers allowed = false
\* with a resetAt still to come; and a call made once the resetAt of a refused
\* call has elapsed, nothing having been recorded in between, answers
\* allowed = true.
C11_RollingWindow ==
    [][check' # check =>
          /\ sentLog' = sentLog
          /\ Cardinality(InWindow(sentLog, now, HourTicks)) >= HourlyLimit
                => (~check'[1].result.allowed /\ check'[1].result.resetAt > now)
          /\ ( /\ check # <<>>
               /\ ~check[1].result.allowed
               /\ NoOvershoot(check[1])
               /\ check[1].log = sentLog
               /\ now >= check[1].result.resetAt )
             => check'[1].result.allowed]_vars

\* a call refused with HourlyLimit sends in the hour was followed, after its
\* resetAt, by a call that was allowed
C11_Witness ==
    /\ Len(check) = 2
    /\ ~check[2].result.allowed
    /\ Cardinality(InWindow(check[2].log, check[2].at, HourTicks)) = HourlyLimit
    /\ check[1].log = check[2].log
    /\ check[1].at >= check[2].result.resetAt
    /\ check[1].result.allowed

----------------------------------------------------------------------------
(* Properties of the checks that precede the send *)

\* what a request leaves behind: rows, transporters, provider calls, usage
Effects == <<emailThreads, emailMessages, transporterCache, transporters,
             verifyCalls, sentLog, delivered>>

\* the request has got no further than the checks
NothingDone(q) ==
    /\ q.threadId = NoThread
    /\ q.messageId = 0
    /\ q.transporter = 0
    /\ q.result = NoResult
    /\ q.recorded = 0

\* C12: while canSendEmail answers allowed = false, the step of a request
\* that checks the limit ends the request without a 201 and without any
\* effect; a request answered 429 carries the resetAt of the check, has
\* created no Thread and no Message, made no transport call and recorded no
\* usage, and takes no further step.
C12_HardBlock ==
    [][\A r \in Requests :
          /\ (req[r].pc = "resolveAccount" /\ ~CanSendEmail.allowed /\ req'[r] # req[r])
             => /\ req'[r].pc = "done"
                /\ req'[r].response \in {400, 429, 500}
                /\ NothingDone(req'[r])
                /\ Effects' = Effects
          /\ (req'[r].response = 429 /\ req[r].response # 429)
             => /\ req'[r].resetAt = CanSendEmail.resetAt
                /\ req'[r].resetAt > now
                /\ NothingDone(req'[r])
                /\ Effects' = Effects
          /\ req[r].response = 429 => req'[r] = req[r]]_vars

\* a request was refused with a resetAt while the limit was reached
C12_Witness ==
    \E r \in Requests :
       /\ req[r].pc = "done"
       /\ req[r].response = 429
       /\ req[r].resetAt > now
       /\ Cardinality(InWindow(sentLog, now, HourTicks)) >= HourlyLimit

\* C13: the step that checks a request whose spam score is SpamBlockScore or
\* more ends the request without a 201 and without any effect, and when it
\* answers the deliverability error the issues of the check are attached; a
\* request is answered the deliverability error only when its score is
\* SpamBlockScore or more.
C13_DeliverabilityGate ==
    [][\A r \in Requests :
          /\ ( /\ req[r].pc = "resolveAccount"
               /\ req[r].input.spamCheck.score >= SpamBlockScore
               /\ req'[r] # req[r] )
             => /\ req'[r].pc = "done"
                /\ req'[r].response \in {400, 429, 500}
                /\ req'[r].message \in {"", "Email blocked: High spam score detected"}
                /\ req'[r].message # "" => req'[r].issues = req[r].input.spamCheck.issues
                /\ NothingDone(req'[r])
                /\ Effects' = Effects
          /\ req'[r].message = "Email blocked: High spam score detected"
             => req'[r].input.spamCheck.score >= SpamBlockScore]_vars

\* one request was blocked for its score of 7 with the issues attached,
\* another with a score of 4 was sent
C13_Witness ==
    \E r, q \in Requests :
       /\ req[r].pc = "done"
       /\ req[r].input.spamCheck.score = 7
       /\ req[r].message = "Email blocked: High spam score detected"
       /\ req[r].issues = SpamBlock.issues
       /\ req[q].pc = "done"
       /\ req[q].input.spamCheck.score = 4
       /\ req[q].response = 201
       /\ q \in delivered

\* the text a reader of the html sees
VisibleText(html) ==
    CASE html = HtmlHi -> <<"h", "i">>
      [] html = HtmlTenChars -> <<"t", "e", "n", " ", "c", "h", "a", "r", "s", "!">>
      [] html = HtmlPadded -> <<"1", "2", "3", "4", "5", "6", "7", "8">>
      [] html = HtmlScript -> <<"h", "e", "l", "l", "o">>
      [] OTHER -> <<>>

\* C14: the step that checks a request without a textBody whose html shows
\* fewer than MinTextLength characters of text ends the request without a 201
\* and without any effect, with the insufficient-content error when the
\* account, the limit and the score let it come to that; a request without a
\* textBody is answered that error only when its html shows fewer than
\* MinTextLength characters.
C14_MandatoryTextBody ==
    [][\A r \in Requests :
          /\ ( /\ req[r].pc = "resolveAccount"
               /\ req[r].input.textBody = NoBody
               /\ Len(VisibleText(req[r].input.htmlBody)) < MinTextLength
               /\ req'[r] # req[r] )
             => /\ req'[r].pc = "done"
                /\ req'[r].response \in {400, 429, 500}
                /\ NothingDone(req'[r])
                /\ Effects' = Effects
                /\ ( /\ req'[r].message # ""
                     /\ CanSendEmail.allowed
                     /\ req[r].input.spamCheck.score < SpamBlockScore )
                   => req'[r].message =
                         "Email must have substantial text content (at least 10 characters)"
          /\ ( /\ req'[r].message =
                     "Email must have substantial text content (at least 10 characters)"
               /\ req'[r].input.textBody = NoBody )
             => Len(VisibleText(req'[r].input.htmlBody)) < MinTextLength]_vars

\* the request with "<p>hi</p>" and no textBody was refused for its content,
\* one whose html shows ten characters was sent
C14_Witness ==
    \E r, q \in Requests :
       /\ req[r].pc = "done"
       /\ req[r].input.htmlBody = HtmlHi
       /\ req[r].input.textBody = NoBody
       /\ req[r].message = "Email must have substantial text content (at least 10 characters)"
       /\ NothingDone(req[r])
       /\ req[q].input.htmlBody = HtmlTenChars
       /\ req[q].input.textBody = NoBody
       /\ req[q].response = 201

----------------------------------------------------------------------------
(* Properties of the transporter cache *)

\* C15: the cache changes only by storing, for the account, the transporter
\* of a getOrCreateTransporter call whose verify succeeded; and when the
\* verify of a call fails, the call ends in the verification error and the
\* cache has no entry for the account.
C15_CacheOnlyVerified ==
    [][/\ transporterCache' # transporterCache
          => \E r \in Requests :
                /\ req[r].pc = "sfVerify"
                /\ req'[r].pc = "sfSendMail"
                /\ transporterCache' =
                      [transporterCache EXCEPT ![account.id] = req[r].transporter]
       /\ \A r \in Requests :
             (req[r].pc = "sfVerify" /\ req'[r].pc = "afterSend")
             => /\ VerifyFailed(r)'
                /\ transporterCache'[account.id] = 0]_vars

\* the send of the request through its transporter failed for the connection
ConnectionFailed(r) ==
    /\ req[r].result.state = "returned"
    /\ req[r].result.error \in {e.message : e \in ConnectionThrown}

\* C16: once a send through a transporter has failed for its connection, the
\* cache does not hold that transporter, so that no later
\* getOrCreateTransporter call returns it.
C16_FailedTransporterEvicted ==
    \A r \in Requests :
       ConnectionFailed(r) => transporterCache[account.id] # req[r].transporter

----------------------------------------------------------------------------
(* Properties of a sync pass over several batches *)

\* the messages of the pass's fetch that no stored Message carries
Unpersisted(p) == {m \in Range(sync[p].messages) : ExistingMessage(m) = {}}

\* the save of m in pass p failed on each of its attempts
FailedEveryAttempt(p, m) ==
    /\ wk[p][m].pc = "done"
    /\ wk[p][m].attempt = DefaultRetries
    /\ ~wk[p][m].result

\* C17: when the batches of a pass are over, the save of every fetched
\* message, of every batch, has run to its end; a message is left unstored
\* only if its own save failed on every attempt, which takes as many
\* persistence errors as it has attempts; and syncedCount counts the saves
\* that stored their message.
C17_FailureIsolation ==
    \A p \in Passes :
       (sync[p].pc \in {"update", "done"} /\ sync[p].messages # <<>>)
       => /\ \A m \in Range(sync[p].messages) : wk[p][m].pc = "done"
          /\ \A m \in Unpersisted(p) : FailedEveryAttempt(p, m)
          /\ (DefaultRetries + 1) * Cardinality(Unpersisted(p)) <= MaxFaults - faults
          /\ sync[p].syncedCount =
                Cardinality({m \in Range(sync[p].messages) : wk[p][m].result})

\* the new message of the first batch failed on every attempt; the stored
\* messages of its batch were skipped and the messages of the next batch
\* were stored by the same pass, which went on to update the account
C17_Witness ==
    /\ sync[1].pc = "done"
    /\ sync[1].success
    /\ Len(sync[1].messages) > BATCH_SIZE
    /\ Unpersisted(1) = {BATCH_SIZE}
    /\ FailedEveryAttempt(1, BATCH_SIZE)
    /\ \A m \in Stored : wk[1][m].pc = "done" /\ ~wk[1][m].result
    /\ \A m \in Mailbox : m > BATCH_SIZE => wk[1][m].result
    /\ sync[1].syncedCount = NumNewer

----------------------------------------------------------------------------
(* Properties of the checkpoint *)

\* pass p has returned success
Synced(p) == sync[p].pc = "done" /\ sync[p].success

\* C18: when pass 1 and then pass 2 have returned success and no save of
\* pass 2 failed on every attempt, pass 1 stored as many messages as it
\* fetched less those whose save failed on every attempt, and each of those
\* was fetched again by pass 2 and is stored.
C18_NoSilentDrop ==
    ( /\ Synced(1) /\ Synced(2)
      /\ \A m \in Msgs : ~FailedEveryAttempt(2, m) )
    => LET Failed == {m \in Range(sync[1].messages) : FailedEveryAttempt(1, m)}
       IN /\ sync[1].syncedCount = Len(sync[1].messages) - Cardinality(Failed)
          /\ \A m \in Failed :
                /\ m \in Range(sync[2].messages)
                /\ ExistingMessage(m) # {}

\* C19: whenever the account's stored historyId is the one a pass's fetch
\* returned, every message of that fetch is stored.
C19_CheckpointSafety ==
    \A p \in Passes :
       ( /\ sync[p].pc \notin {"idle", "fetch"}
         /\ sync[p].historyId # 0
         /\ account.historyId = sync[p].historyId )
       => \A m \in Range(sync[p].messages) : ExistingMessage(m) # {}

\* C20: the steps of a pass up to the end of its fetch change no Thread, no
\* Message and nothing of the account (historyId, lastSyncAt); a pass whose
\* fetch fails returns a failure with its error and has started no save.
C20_FetchFailureFrame ==
    [][\A p \in Passes :
          /\ (sync[p].pc \in {"idle", "fetch"} /\ sync'[p] # sync[p])
             => /\ emailThreads' = emailThreads
                /\ emailMessages' = emailMessages
                /\ account' = account
          /\ (sync[p].pc = "fetch" /\ sync'[p].pc = "done")
             => /\ ~sync'[p].success
                /\ sync'[p].error # ""
                /\ sync'[p].syncedCount = 0
                /\ wk'[p] = wk[p]]_vars

\* the fetch of pass 2 failed after pass 1 had stored messages and updated
\* the account, all of which is as pass 1 left it
C20_Witness ==
    /\ Synced(1)
    /\ sync[1].syncedCount = Len(emailMessages)
    /\ Len(emailMessages) > 0
    /\ sync[2].pc = "done"
    /\ ~sync[2].success
    /\ sync[2].error = "ProviderUnavailable"
    /\ account.lastSyncAt = 1
    /\ account.historyId = sync[1].historyId

----------------------------------------------------------------------------
(* Properties of what a sync pass returns *)

\* syncAccount's return value, lines 352-362
SyncResult(s) ==
    IF s.success
    THEN [success |-> TRUE, syncedCount |-> s.syncedCount]
    ELSE [success |-> FALSE, error |-> s.error]

\* C21: the result of a pass that returned success reports the newly stored,
\* the skipped and the permanently failed messages as three counts, which sum
\* to the number of messages fetched.
C21_SummaryAccountsForAll ==
    \A p \in Passes :
       Synced(p)
       => LET result == SyncResult(sync[p])
          IN /\ {"syncedCount", "skippedCount", "failedCount"} \subseteq DOMAIN result
             /\ result.syncedCount + result.skippedCount + result.failedCount
                   = Len(sync[p].messages)

----------------------------------------------------------------------------
(* C22 *)

\* what each body of the model looks like once its script elements and its
\* event handlers are gone
SanitizedForm(html) ==
    CASE html = HtmlInbound -> <<"<", "b", " ", ">", "h", "i", "<", "/", "b", ">">>
      [] html = HtmlScript -> <<"h", "e", "l", "l", "o">>
      [] html = HtmlHi -> HtmlHi
      [] html = HtmlTenChars -> HtmlTenChars
      [] html = HtmlPadded -> HtmlPadded

\* C22: every 'received' row stores the sanitized form of the body the
\* provider delivered for its message, and every 'sent' row is the row of a
\* send request and stores the sanitized form of the body of that request
C22_StoredBodiesSanitized ==
    \A k \in 1..Len(emailMessages) :
       LET row == emailMessages[k]
       IN /\ row.messageType = "received"
             => row.htmlBody = SanitizedForm(HtmlBodyOf(row.externalMessageId))
          /\ row.messageType = "sent"
             => \E r \in Requests :
                   /\ req[r].messageId = k
                   /\ row.htmlBody = SanitizedForm(req[r].input.htmlBody)

\* a received row of the message whose body carries a handler and a script,
\* and a sent row of a request whose body carries a script
C22_Witness ==
    /\ \E k \in 1..Len(emailMessages) :
          /\ emailMessages[k].messageType = "received"
          /\ emailMessages[k].externalMessageId = 1
          /\ emailMessages[k].htmlBody # HtmlInbound
    /\ \E r \in Requests :
          /\ req[r].input.htmlBody = HtmlScript
          /\ req[r].input.spamCheck.score = 5
          /\ HasSentRow(r)
          /\ emailMessages[req[r].messageId].htmlBody # HtmlScript

----------------------------------------------------------------------------
(* POST /emails/drafts, next to one sync pass and one send request *)

MaxDrafts == 1

\* the html bodies of the drafts
DraftBodies == {HtmlScript}

\* lines 2156-2168: the row of db.insert(emailMessages) of the drafts route:
\* threadId '', the body as the request carries it, messageType 'draft'
NewDraftMessage(htmlBody) ==
    [threadId |-> NoThread, externalMessageId |-> 0, messageType |-> "draft",
     htmlBody |-> htmlBody]

Drafts == {k \in 1..Len(emailMessages) : emailMessages[k].messageType = "draft"}

\* lines 2151-2174: the draft is stored (201), or the insert throws (500)
SaveDraft ==
    /\ Cardinality(Drafts) < MaxDrafts
    /\ \/ /\ \E htmlBody \in DraftBodies :
                emailMessages' = Append(emailMessages, NewDraftMessage(htmlBody))
          /\ UNCHANGED faults
       \/ /\ CanFault
          /\ faults' = faults - 1
          /\ UNCHANGED emailMessages
    /\ UNCHANGED <<emailThreads, account, sync, wk, extThread, flaky, breaker, sendVars>>

DraftNext ==
    \/ MailNext
    \/ SaveDraft

DraftSpec == MailInit /\ [][DraftNext]_vars

\* C23: every Message row references a stored Thread
C23_MessageHasThread ==
    \A k \in 1..Len(emailMessages) :
       emailMessages[k].threadId \in 1..Len(emailThreads)

----------------------------------------------------------------------------
(* One syncAccount invocation under a clock: what the process does by itself
   (its timers, the continuation after Promise.allSettled) happens when it
   can; the answer of the provider or of the database to a pending call may
   never come, and no step of syncAccount is taken on the passing of time *)

StallNext ==
    \/ \E p \in MailPasses : SyncFindAccount(p)
    \/ \E p \in MailPasses : SyncStep(p)
    \/ \E p \in MailPasses, m \in Msgs : WorkerStep(p, m)
    \/ Tick

\* lines 461 and 372-386: setTimeout fires, allSettled resumes the loop
StallFairness ==
    /\ WF_vars(Tick)
    /\ \A p \in MailPasses : WF_vars(SyncStartBatch(p) \/ SyncFinishBatch(p))
    /\ \A p \in MailPasses, m \in Msgs : WF_vars(RetryAfterDelay(p, m))

StallSpec == SeqSyncInit /\ [][StallNext]_vars /\ StallFairness

\* C24: a syncAccount invocation that has issued its fetch returns
C24_SyncReturns ==
    \A p \in MailPasses : (sync[p].pc = "fetch") ~> (sync[p].pc = "done")

----------------------------------------------------------------------------
(* C25 *)

\* the persistence call of message m in pass p fails in this step
SaveAttemptFails(p, m) ==
    /\ faults' = faults - 1
    /\ wk'[p][m] # wk[p][m]

\* C25: a save is in its first, second or third attempt; a retry starts only
\* out of the wait; the wait that follows the failure of the first attempt is
\* 1000 ms and the one that follows the failure of the second is 2000 ms;
\* the failure of the third attempt ends the save with the value false
C25_BoundedBackoff ==
    [][\A p \in Passes, m \in Msgs :
          LET w == wk[p][m]
              v == wk'[p][m]
          IN /\ v.attempt \in {0, 1, 2}
             /\ v.attempt # w.attempt
                => w.pc = "backoff" /\ v.attempt = w.attempt + 1
             /\ SaveAttemptFails(p, m)
                => CASE w.attempt = 0 -> v.pc = "backoff" /\ v.delay = 1000
                     [] w.attempt = 1 -> v.pc = "backoff" /\ v.delay = 2000
                     [] OTHER -> v.pc = "done" /\ v.result = FALSE]_vars

\* a save has failed three times and has ended with false, after a wait of
\* 2000 ms
C25_Witness ==
    \E p \in Passes, m \in Msgs :
       /\ wk[p][m].pc = "done"
       /\ wk[p][m].attempt = 2
       /\ wk[p][m].delay = 2000
       /\ ~wk[p][m].result
       /\ faults = 0
       /\ ExistingMessage(m) = {}

----------------------------------------------------------------------------
(* C26 *)

\* the saves of pass p that wait for the answer of a persistence call
InFlight(p) ==
    {m \in DOMAIN wk[p] :
        wk[p][m].pc \in {"findMessage", "findThread", "insertThread", "insertMessage"}}

\* the number of the batch that holds the k-th fetched message
BatchOf(k) == (k - 1) \div 10

\* C26: a pass never has more than 10 persistence calls pending, and a save
\* of a later batch has started only if every save of the batches before it
\* has settled
C26_BatchBarrier ==
    \A p \in Passes :
       /\ Cardinality(InFlight(p)) <= 10
       /\ \A k, l \in 1..Len(sync[p].messages) :
             ( /\ BatchOf(k) < BatchOf(l)
               /\ wk[p][sync[p].messages[l]].pc # "idle" )
             => wk[p][sync[p].messages[k]].pc = "done"

\* the saves of the second batch are pending, after a first batch of ten in
\* which a save went through its retries
C26_Witness ==
    /\ Len(sync[1].messages) = 10 + NumNewer
    /\ Cardinality(InFlight(1)) = NumNewer
    /\ \A m \in InFlight(1) : m > 10
    /\ \E m \in 1..10 : wk[1][m].attempt > 0
    /\ \A m \in 1..10 : wk[1][m].pc = "done"

----------------------------------------------------------------------------
(* C27 *)

\* the Thread rows that a save of message m has inserted
ThreadsOfSave(m) == {t \in 1..Len(emailThreads) : emailThreads[t].subject = m}

\* C27: while pass 1 is the only pass that has run, the save of a message has
\* inserted at most one Thread, and once the save has failed on every attempt
\* no Thread inserted for it is without a Message
C27_RetryKeepsOneThread ==
    (\A p \in Passes \ {1} : sync[p].pc = "idle")
    => \A m \in Msgs :
          /\ Cardinality(ThreadsOfSave(m)) <= 1
          /\ FailedEveryAttempt(1, m)
             => \A t \in ThreadsOfSave(m) : MessagesOf(t) # {}

----------------------------------------------------------------------------
(* C28 *)

\* C28: the sends recorded within the rolling hour are never more than
\* HourlyLimit, and those recorded within the rolling day never more than
\* DailyLimit
C28_LimitHoldsUnderConcurrency ==
    /\ Cardinality(InWindow(sentLog, now, HourTicks)) <= HourlyLimit
    /\ Cardinality(InWindow(sentLog, now, DayTicks)) <= DailyLimit

----------------------------------------------------------------------------
(* C29 *)

\* C29: a request has its 'sent' row stored only if the account it sends
\* from is active
C29_SentRowNeedsActiveAccount ==
    \A r \in Requests : HasSentRow(r) => account.isActive

----------------------------------------------------------------------------
(* The circuit breaker under a clock *)

BreakerNext ==
    \/ ShouldAllowRequest
    \/ RecordFailure
    \/ RecordSuccess
    \/ TimerFires
    \/ Tick

BreakerSpec == RateInit /\ [][BreakerNext]_vars

\* C30: the circuit is open only with 20 or more failures counted, and an
\* open circuit closes only by recordSuccess or reset, or once 3000 ms have
\* passed since the failure recorded last
C30_OpenUntilQuiet ==
    [][/\ breaker'.isOpen => breaker'.failureCount >= 20
       /\ (breaker.isOpen /\ ~breaker'.isOpen)
          => \/ RecordSuccess
             \/ DateNow >= breaker.lastFailureTime + 3000]_vars

====
